---- MODULE Spec2Model ----
(***************************************************************************)
(* A model of parser.py: the Lexer (cursor over the source text), the AST  *)
(* node classes with calculate() and __str__(), and the recursive-descent  *)
(* Parser with its single current-token slot.  The recursion of the parser *)
(* is modelled with an explicit call stack, one frame per active call of   *)
(* parse, parse_relation, parse_term, parse_factor or parse_primary.       *)
(*                                                                         *)
(* A Python str is a sequence of one-character strings; a token is such a  *)
(* sequence, or None.  Lexer.index is 0-based as in the source, so the     *)
(* character under the cursor is source[index + 1].                        *)
(***************************************************************************)
EXTENDS Integers, Sequences, FiniteSets, TLC

VARIABLES
    source,     \* Lexer.source / Parser.expression_string
    index,      \* Lexer.index
    token,      \* Parser.token
    stack,      \* the active calls of the parser's methods, innermost last
    ret,        \* the value the last returning method handed to its caller
    result,     \* what the outermost Parser.parse() returned
    status,     \* "running", "done", or the exception that ended the run
    err,        \* the message of that exception
    fetched     \* history: the tokens Lexer.next_token has returned so far

vars == <<source, index, token, stack, ret, result, status, err, fetched>>

\* Longest text enumerated exhaustively.
MaxLen == 4

\* Most calls of Lexer.next_token a direct client of the Lexer makes.
MaxCalls == 6

-----------------------------------------------------------------------------
(* Characters and strings *)

Digits == {"0", "1", "2", "3", "4", "5", "6", "7", "8", "9"}

ALLOWED_SYMBOLS == {"<", ">", "=", "+", "-", "*", "(", ")"}

\* The characters the exhaustive texts are built from: two digits, every
\* symbol, the space, and one character the Lexer does not accept.
Alphabet == {"1", "2", "<", ">", "=", "+", "-", "*", "(", ")", " ", "&"}

\* Python's None; no str equals it.
None == <<"None">>

DigitValue(c) ==
    CASE c = "0" -> 0 [] c = "1" -> 1 [] c = "2" -> 2 [] c = "3" -> 3
      [] c = "4" -> 4 [] c = "5" -> 5 [] c = "6" -> 6 [] c = "7" -> 7
      [] c = "8" -> 8 [] c = "9" -> 9

\* str.isdigit(): non-empty and every character a digit.
isdigit(s) == s # <<>> /\ \A i \in 1..Len(s) : s[i] \in Digits

\* int(s) for a digit-run s.
RECURSIVE int(_)
int(s) ==
    IF s = <<>> THEN 0
    ELSE 10 * int(SubSeq(s, 1, Len(s) - 1)) + DigitValue(s[Len(s)])

\* The text of a str, as one TLA+ string.
RECURSIVE Text(_)
Text(s) == IF s = <<>> THEN "" ELSE Head(s) \o Text(Tail(s))

\* What an f-string puts for {token}: the text of a str, "None" for None.
Format(t) == IF t = None THEN "None" ELSE Text(t)

-----------------------------------------------------------------------------
(* Lexer *)

is_digit(src, i) == src[i + 1] \in Digits

is_symbol(src, i) == src[i + 1] \in ALLOWED_SYMBOLS

\* Where next_number stops: the first position at or after i that is the end
\* of the source or holds no digit.
RECURSIVE NumberEnd(_, _)
NumberEnd(src, i) ==
    IF i < Len(src) /\ is_digit(src, i) THEN NumberEnd(src, i + 1) ELSE i

next_number(src, i) ==
    [raised |-> FALSE, token |-> SubSeq(src, i + 1, NumberEnd(src, i)),
     index |-> NumberEnd(src, i), symbol |-> ""]

next_symbol(src, i) ==
    [raised |-> FALSE, token |-> <<src[i + 1]>>, index |-> i + 1, symbol |-> ""]

\* A variant that rejects the end of the input instead of returning None.
RECURSIVE Lexer_next_token_EndRaises(_, _)
Lexer_next_token_EndRaises(src, i) ==
    IF i < Len(src)
    THEN IF is_digit(src, i) THEN next_number(src, i)
         ELSE IF is_symbol(src, i) THEN next_symbol(src, i)
         ELSE IF src[i + 1] = " " THEN Lexer_next_token_EndRaises(src, i + 1)
         ELSE [raised |-> TRUE, token |-> None, index |-> i, symbol |-> src[i + 1]]
    ELSE [raised |-> TRUE, token |-> None, index |-> i, symbol |-> ""]

\* A variant that skips an unknown character the way it skips a space.
RECURSIVE Lexer_next_token_SkipsUnknown(_, _)
Lexer_next_token_SkipsUnknown(src, i) ==
    IF i < Len(src)
    THEN IF is_digit(src, i) THEN next_number(src, i)
         ELSE IF is_symbol(src, i) THEN next_symbol(src, i)
         ELSE Lexer_next_token_SkipsUnknown(src, i + 1)
    ELSE [raised |-> FALSE, token |-> None, index |-> i, symbol |-> ""]

\* Lexer.next_token from cursor i: the token returned (None at the end of the
\* source) and the cursor afterwards, or raised with the offending character.
\* A space advances the cursor and the loop goes round again.
RECURSIVE Lexer_next_token(_, _)
Lexer_next_token(src, i) ==
    IF i < Len(src)
    THEN IF is_digit(src, i) THEN next_number(src, i)
         ELSE IF is_symbol(src, i) THEN next_symbol(src, i)
         ELSE IF src[i + 1] = " " THEN Lexer_next_token(src, i + 1)
         ELSE [raised |-> TRUE, token |-> None, index |-> i, symbol |-> src[i + 1]]
    ELSE [raised |-> FALSE, token |-> None, index |-> i, symbol |-> ""]

LexicalErrorMessage(r) == "Invalid symbol: " \o r.symbol

-----------------------------------------------------------------------------
(* AST nodes *)

PrimaryKinds == {"Integer", "Parenthesized"}
FactorKinds == {"Factor", "SingleFactor"}
TermKinds == {"AddTerm", "SubTerm", "SingleTerm"}
RelationKinds == {"Less", "Greater", "Equal", "SingleRelation"}
ExpressionKinds == PrimaryKinds \cup FactorKinds \cup TermKinds \cup RelationKinds

\* Python's None where a node is expected (right of a Single* node).
NoneNode == [kind |-> "None"]

isinstance(node, family) == node.kind \in family

Integer(number) == [kind |-> "Integer", number |-> number]

Parenthesized(expression) == [kind |-> "Parenthesized", expression |-> expression]

Binary(kind, left, right) == [kind |-> kind, left |-> left, right |-> right]

SingleRelation(term) == Binary("SingleRelation", term, NoneNode)

SingleTerm(factor) == Binary("SingleTerm", factor, NoneNode)

SingleFactor(primary) == Binary("SingleFactor", primary, NoneNode)

\* The assertions the constructor of node's class makes on its arguments.
Asserts(node) ==
    CASE node.kind = "Integer" -> isdigit(node.number)
      [] node.kind = "Parenthesized" -> isinstance(node.expression, ExpressionKinds)
      [] node.kind \in {"Less", "Greater", "Equal"} ->
            /\ isinstance(node.left, TermKinds)
            /\ node.right = NoneNode \/ isinstance(node.right, TermKinds)
      [] node.kind = "SingleRelation" ->
            /\ isinstance(node.left, TermKinds)
            /\ node.right = NoneNode \/ isinstance(node.right, TermKinds)
      [] node.kind \in {"AddTerm", "SubTerm"} ->
            /\ isinstance(node.left, TermKinds \cup FactorKinds)
            /\ node.right = NoneNode \/ isinstance(node.right, FactorKinds)
      [] node.kind = "SingleTerm" ->
            /\ isinstance(node.left, FactorKinds)
            /\ node.right = NoneNode \/ isinstance(node.right, FactorKinds)
      [] node.kind = "Factor" ->
            /\ isinstance(node.left, FactorKinds \cup PrimaryKinds)
            /\ node.right = NoneNode \/ isinstance(node.right, PrimaryKinds)
      [] node.kind = "SingleFactor" ->
            /\ isinstance(node.left, PrimaryKinds)
            /\ node.right = NoneNode \/ isinstance(node.right, PrimaryKinds)
      [] OTHER -> FALSE

RECURSIVE calculate(_)
calculate(node) ==
    CASE node.kind = "Integer" -> int(node.number)
      [] node.kind = "Parenthesized" -> calculate(node.expression)
      [] node.kind = "Less" ->
            IF calculate(node.left) < calculate(node.right) THEN 1 ELSE 0
      [] node.kind = "Greater" ->
            IF calculate(node.left) > calculate(node.right) THEN 1 ELSE 0
      [] node.kind = "Equal" ->
            IF calculate(node.left) = calculate(node.right) THEN 1 ELSE 0
      [] node.kind = "AddTerm" -> calculate(node.left) + calculate(node.right)
      [] node.kind = "SubTerm" -> calculate(node.left) - calculate(node.right)
      [] node.kind = "Factor" -> calculate(node.left) * calculate(node.right)
      [] node.kind \in {"SingleRelation", "SingleTerm", "SingleFactor"} ->
            calculate(node.left)

\* __str__ of a node.
RECURSIVE Str(_)
Str(node) ==
    CASE node.kind = "Integer" -> "Integer(" \o Text(node.number) \o ")"
      [] node.kind = "Parenthesized" ->
            "Parenthesized(" \o Str(node.expression) \o ")"
      [] node.kind \in {"SingleRelation", "SingleTerm", "SingleFactor"} ->
            node.kind \o "(" \o Str(node.left) \o ")"
      [] node.kind = "None" -> "None"
      [] OTHER ->
            node.kind \o "(" \o Str(node.left) \o "," \o Str(node.right) \o ")"

-----------------------------------------------------------------------------
(* Input texts *)

\* Every text of at most MaxLen characters over the Alphabet.
ShortTexts == UNION {[1..n -> Alphabet] : n \in 0..MaxLen}

\* Longer texts: the expressions the documentation and the tests name, and a
\* few chains and nestings longer than MaxLen.
Examples ==
    { <<"1", "+", "2", "*", "3">>,
      <<"2", "+", "3", "*", "4">>,
      <<"(", "2", "+", "3", ")", "*", "4">>,
      <<"1", "0", "-", "3", "-", "2">>,
      <<"1", "<", "2", "<", "3">>,
      <<"(", "1", "<", "2", "<", "3", ")">>,
      <<"(", "1", " ", "2", ")">>,
      <<"1", "&", "2">>,
      <<"3", "<", "5">>, <<"3", ">", "5">>, <<"4", "=", "4">>,
      <<"9", "-", "4", "+", "3", "-", "1">>,
      <<"2", "*", "3", "*", "4", "+", "1">>,
      <<"7", "-", "2", "*", "3", "=", "1">>,
      <<"(", "(", "7", ")", ")", "*", "(", "2", "-", "5", ")">>,
      <<" ", "0", "1", "2", " ", "*", " ", "(", "3", " ", ">", " ", "1", ")", " ">>,
      <<"(", "1", "+", "2", ")", ")", "&">>,
      <<"2", "*", "(", "3", "+">> }

Texts == ShortTexts \cup Examples

-----------------------------------------------------------------------------
(* Parser: call stack *)

\* One active call: the method, where it stands, its locals left, right and
\* token, and (history) how many tokens had been fetched when it was called.
NewFrame(fn, entry) ==
    [fn |-> fn, pc |-> "start", left |-> NoneNode, right |-> NoneNode,
     tok |-> None, entry |-> entry]

NoRet == [fn |-> "none", node |-> NoneNode, entry |-> -1]

Top == stack[Len(stack)]

At(fn, pc) ==
    status = "running" /\ Len(stack) > 0 /\ Top.fn = fn /\ Top.pc = pc

\* The running method, left in state frame, calls method fn.
Call(frame, fn, entry) ==
    /\ stack' = Append([stack EXCEPT ![Len(stack)] = frame], NewFrame(fn, entry))
    /\ ret' = NoRet
    /\ UNCHANGED <<result, status, err>>

\* The running method returns node; the outermost return ends the run.
Return(node) ==
    /\ stack' = SubSeq(stack, 1, Len(stack) - 1)
    /\ ret' = [fn |-> Top.fn, node |-> node, entry |-> Top.entry]
    /\ IF Len(stack) = 1
       THEN status' = "done" /\ result' = node
       ELSE UNCHANGED <<status, result>>
    /\ err' = err

\* An exception leaves every active call: nothing catches it.
Raise(exception, message) ==
    /\ stack' = <<>>
    /\ ret' = NoRet
    /\ status' = exception
    /\ err' = message
    /\ result' = result

\* A constructor builds node and returns it, unless its assertion fails.
ReturnNew(node) ==
    IF Asserts(node) THEN Return(node) ELSE Raise("AssertionError", "")

current_token == token

\* A variant of Parser.next_token that forgets to store the token.
Parser_next_token_NotStored(r) ==
    /\ index' = r.index
    /\ token' = token
    /\ fetched' = Append(fetched, r.token)

\* Parser.next_token when the Lexer returned r.token: the slot takes it.
Parser_next_token(r) ==
    /\ index' = r.index
    /\ token' = r.token
    /\ fetched' = Append(fetched, r.token)

\* Parser.next_token when the Lexer raised: the cursor stays on the offending
\* character, the slot keeps its token, the LexicalError leaves the parser.
LexerRaised(r) ==
    /\ index' = r.index
    /\ UNCHANGED <<token, fetched>>
    /\ Raise("LexicalError", LexicalErrorMessage(r))

NoFetch == UNCHANGED <<index, token, fetched>>

-----------------------------------------------------------------------------
(* Parser.parse *)

parse_call ==
    /\ At("parse", "start")
    /\ Call([Top EXCEPT !.pc = "return"], "parse_relation", Len(fetched))
    /\ NoFetch
    /\ UNCHANGED source

\* A variant of parse that rejects input left over after the relation.
parse_return_Strict ==
    /\ At("parse", "return")
    /\ ret.fn = "parse_relation"
    /\ IF Len(stack) = 1 /\ current_token # None
       THEN Raise("SyntaxError", "Unexpected '" \o Format(current_token) \o "'")
       ELSE Return(ret.node)
    /\ NoFetch
    /\ UNCHANGED source

parse_return ==
    /\ At("parse", "return")
    /\ ret.fn = "parse_relation"
    /\ Return(ret.node)
    /\ NoFetch
    /\ UNCHANGED source

-----------------------------------------------------------------------------
(* Parser.parse_relation *)

RelationContinues(tok) == tok \in {<<"<">>, <<">">>, <<"=">>}

RelationNode(tok, left, right) ==
    IF tok = <<"<">> THEN Binary("Less", left, right)
    ELSE IF tok = <<">">> THEN Binary("Greater", left, right)
    ELSE Binary("Equal", left, right)

parse_relation_call ==
    /\ At("parse_relation", "start")
    /\ Call([Top EXCEPT !.pc = "left"], "parse_term", Len(fetched))
    /\ NoFetch
    /\ UNCHANGED source

\* left = self.parse_term() has returned: look at the current token.
parse_relation_left ==
    /\ At("parse_relation", "left")
    /\ ret.fn = "parse_term"
    /\ LET tok == current_token
       IN IF RelationContinues(tok)
          THEN Call([Top EXCEPT !.pc = "right", !.left = ret.node, !.tok = tok],
                    "parse_term", Len(fetched))
          ELSE ReturnNew(SingleRelation(ret.node))
    /\ NoFetch
    /\ UNCHANGED source

\* right = self.parse_term() has returned: build the comparison.
parse_relation_right ==
    /\ At("parse_relation", "right")
    /\ ret.fn = "parse_term"
    /\ ReturnNew(RelationNode(Top.tok, Top.left, ret.node))
    /\ NoFetch
    /\ UNCHANGED source

-----------------------------------------------------------------------------
(* Parser.parse_term *)

\* A variant of the loop condition that forgets '-'.
TermContinues_PlusOnly(tok) == tok = <<"+">>

TermContinues(tok) == tok \in {<<"+">>, <<"-">>}

\* A variant that builds an AddTerm whatever the operator.
TermNode_AlwaysAdd(tok, left, right) == Binary("AddTerm", left, right)

TermNode(tok, left, right) ==
    IF tok = <<"+">> THEN Binary("AddTerm", left, right)
    ELSE IF tok = <<"-">> THEN Binary("SubTerm", left, right)
    ELSE left

\* A variant that never wraps a lone factor.
TermResult_NoWrap(left, right) == left

TermResult(left, right) == IF right = NoneNode THEN SingleTerm(left) ELSE left

\* The while loop's test, and what follows it.
TermLoop(frame) ==
    IF TermContinues(frame.tok)
    THEN Call([frame EXCEPT !.pc = "right"], "parse_factor", Len(fetched))
    ELSE ReturnNew(TermResult(frame.left, frame.right))

parse_term_call ==
    /\ At("parse_term", "start")
    /\ Call([Top EXCEPT !.pc = "left"], "parse_factor", Len(fetched))
    /\ NoFetch
    /\ UNCHANGED source

\* left = self.parse_factor() has returned.
parse_term_left ==
    /\ At("parse_term", "left")
    /\ ret.fn = "parse_factor"
    /\ TermLoop([Top EXCEPT !.left = ret.node, !.right = NoneNode,
                            !.tok = current_token])
    /\ NoFetch
    /\ UNCHANGED source

\* right = self.parse_factor() has returned inside the loop: fold it in.
parse_term_right ==
    /\ At("parse_term", "right")
    /\ ret.fn = "parse_factor"
    /\ LET node == TermNode(Top.tok, Top.left, ret.node)
       IN IF Asserts(node)
          THEN TermLoop([Top EXCEPT !.left = node, !.right = ret.node,
                                    !.tok = current_token])
          ELSE Raise("AssertionError", "")
    /\ NoFetch
    /\ UNCHANGED source

-----------------------------------------------------------------------------
(* Parser.parse_factor *)

FactorContinues(tok) == tok = <<"*">>

\* A variant that wraps a primary on the left before multiplying.
FactorNode_WrapsLeft(left, right) ==
    IF isinstance(left, PrimaryKinds)
    THEN Binary("Factor", SingleFactor(left), right)
    ELSE Binary("Factor", left, right)

FactorNode(left, right) == Binary("Factor", left, right)

FactorResult(left, right) == IF right = NoneNode THEN SingleFactor(left) ELSE left

\* The while loop's test, and what follows it; entry counts the token that
\* self.next_token() has just fetched.
FactorLoop(frame, entry) ==
    IF FactorContinues(frame.tok)
    THEN Call([frame EXCEPT !.pc = "right"], "parse_primary", entry)
    ELSE ReturnNew(FactorResult(frame.left, frame.right))

parse_factor_call ==
    /\ At("parse_factor", "start")
    /\ Call([Top EXCEPT !.pc = "left"], "parse_primary", Len(fetched))
    /\ NoFetch
    /\ UNCHANGED source

\* left = self.parse_primary() has returned: token = self.next_token().
parse_factor_left ==
    /\ At("parse_factor", "left")
    /\ ret.fn = "parse_primary"
    /\ LET r == Lexer_next_token(source, index)
       IN IF r.raised
          THEN LexerRaised(r)
          ELSE /\ Parser_next_token(r)
               /\ FactorLoop([Top EXCEPT !.left = ret.node, !.right = NoneNode,
                                         !.tok = r.token],
                             Len(fetched) + 1)
    /\ UNCHANGED source

\* right = self.parse_primary() has returned inside the loop: fold it in,
\* then token = self.next_token().
parse_factor_right ==
    /\ At("parse_factor", "right")
    /\ ret.fn = "parse_primary"
    /\ LET node == FactorNode(Top.left, ret.node)
           r == Lexer_next_token(source, index)
       IN IF ~Asserts(node)
          THEN NoFetch /\ Raise("AssertionError", "")
          ELSE IF r.raised
          THEN LexerRaised(r)
          ELSE /\ Parser_next_token(r)
               /\ FactorLoop([Top EXCEPT !.left = node, !.right = ret.node,
                                         !.tok = r.token],
                             Len(fetched) + 1)
    /\ UNCHANGED source

-----------------------------------------------------------------------------
(* Parser.parse_primary *)

NoneTypeMessage == "'NoneType' object has no attribute 'isdigit'"

PrimaryMessage(tok) == "Expected integer or parenthesis, got '" \o Format(tok) \o "'"

CloseMessage(tok) == "Expected ')', got '" \o Format(tok) \o "'"

\* token = self.next_token(), then the three branches on it.  On None,
\* token.isdigit() raises AttributeError.
parse_primary_start ==
    /\ At("parse_primary", "start")
    /\ LET r == Lexer_next_token(source, index)
       IN IF r.raised
          THEN LexerRaised(r)
          ELSE /\ Parser_next_token(r)
               /\ IF r.token = None
                  THEN Raise("AttributeError", NoneTypeMessage)
                  ELSE IF isdigit(r.token)
                  THEN ReturnNew(Integer(r.token))
                  ELSE IF r.token = <<"(">>
                  THEN Call([Top EXCEPT !.pc = "close", !.tok = r.token],
                            "parse", Len(fetched) + 1)
                  ELSE Raise("SyntaxError", PrimaryMessage(r.token))
    /\ UNCHANGED source

\* expression = self.parse() has returned: the current token must be ')'.
parse_primary_close ==
    /\ At("parse_primary", "close")
    /\ ret.fn = "parse"
    /\ LET tok == current_token
       IN IF tok # <<")">>
          THEN Raise("SyntaxError", CloseMessage(tok))
          ELSE ReturnNew(Parenthesized(ret.node))
    /\ NoFetch
    /\ UNCHANGED source

-----------------------------------------------------------------------------
(* The run of main(): one Parser on one text, parse() called once *)

Init ==
    /\ source \in Texts
    /\ index = 0
    /\ token = None
    /\ stack = <<NewFrame("parse", 0)>>
    /\ ret = NoRet
    /\ result = NoneNode
    /\ status = "running"
    /\ err = ""
    /\ fetched = <<>>

Next ==
    \/ parse_call
    \/ parse_return
    \/ parse_relation_call
    \/ parse_relation_left
    \/ parse_relation_right
    \/ parse_term_call
    \/ parse_term_left
    \/ parse_term_right
    \/ parse_factor_call
    \/ parse_factor_left
    \/ parse_factor_right
    \/ parse_primary_start
    \/ parse_primary_close

Spec == Init /\ [][Next]_vars

-----------------------------------------------------------------------------
(* A client that owns a Lexer and calls next_token again and again *)

InitLexer ==
    /\ source \in Texts
    /\ index = 0
    /\ token = None
    /\ stack = <<>>
    /\ ret = NoRet
    /\ result = NoneNode
    /\ status = "lexing"
    /\ err = ""
    /\ fetched = <<>>

\* One call of Lexer.next_token; the token it returns is recorded in fetched.
lexer_next_token ==
    /\ status = "lexing"
    /\ Len(fetched) < MaxCalls
    /\ LET r == Lexer_next_token(source, index)
       IN /\ index' = r.index
          /\ IF r.raised
             THEN /\ status' = "LexicalError"
                  /\ err' = LexicalErrorMessage(r)
                  /\ fetched' = fetched
             ELSE /\ fetched' = Append(fetched, r.token)
                  /\ UNCHANGED <<status, err>>
    /\ UNCHANGED <<source, token, stack, ret, result>>

NextLexer == lexer_next_token

SpecLexer == InitLexer /\ [][NextLexer]_vars

-----------------------------------------------------------------------------
(* The grammar, read off a token sequence without recursive descent:       *)
(*   relation := term (('<'|'>'|'=') term)?                                *)
(*   term     := factor (('+'|'-') factor)*                                *)
(*   factor   := primary ('*' primary)*                                    *)
(*   primary  := Number | '(' relation ')'                                 *)
(* A sequence is split at its last operator outside all parentheses.       *)

RelOps == {<<"<">>, <<">">>, <<"=">>}
AddOps == {<<"+">>, <<"-">>}
MulOps == {<<"*">>}

\* The tokens of the text from cursor i, up to its end or to the first
\* character the Lexer rejects.
RECURSIVE TokensFrom(_, _)
TokensFrom(src, i) ==
    LET r == Lexer_next_token(src, i)
    IN IF r.raised \/ r.token = None THEN <<>>
       ELSE <<r.token>> \o TokensFrom(src, r.index)

\* The Lexer accepts every character of the text from cursor i on.
RECURSIVE LexesFrom(_, _)
LexesFrom(src, i) ==
    LET r == Lexer_next_token(src, i)
    IN IF r.raised THEN FALSE
       ELSE IF r.token = None THEN TRUE
       ELSE LexesFrom(src, r.index)

\* How many parentheses are open before position i of w.
Depth(w, i) ==
    Cardinality({j \in 1..(i - 1) : w[j] = <<"(">>})
        - Cardinality({j \in 1..(i - 1) : w[j] = <<")">>})

\* The positions of w holding one of ops outside all parentheses.
TopLevel(w, ops) == {i \in 1..Len(w) : w[i] \in ops /\ Depth(w, i) = 0}

Last(S) == CHOOSE x \in S : \A y \in S : y <= x

Before(w, i) == SubSeq(w, 1, i - 1)

After(w, i) == SubSeq(w, i + 1, Len(w))

\* w is a sentence of the grammar's rule.
RECURSIVE Derives(_, _)
Derives(rule, w) ==
    CASE rule = "relation" ->
            LET R == TopLevel(w, RelOps)
            IN IF R = {} THEN Derives("term", w)
               ELSE /\ Cardinality(R) = 1
                    /\ Derives("term", Before(w, Last(R)))
                    /\ Derives("term", After(w, Last(R)))
      [] rule = "term" ->
            LET A == TopLevel(w, AddOps)
            IN IF A = {} THEN Derives("factor", w)
               ELSE /\ Derives("term", Before(w, Last(A)))
                    /\ Derives("factor", After(w, Last(A)))
      [] rule = "factor" ->
            LET M == TopLevel(w, MulOps)
            IN IF M = {} THEN Derives("primary", w)
               ELSE /\ Derives("factor", Before(w, Last(M)))
                    /\ Derives("primary", After(w, Last(M)))
      [] rule = "primary" ->
            \/ Len(w) = 1 /\ isdigit(w[1])
            \/ /\ Len(w) >= 3
               /\ w[1] = <<"(">>
               /\ w[Len(w)] = <<")">>
               /\ Derives("relation", SubSeq(w, 2, Len(w) - 1))

\* The value of a sentence of the rule: '*' before '+' and '-', operators of
\* one level from left to right, a comparison 1 or 0.
RECURSIVE Value(_, _)
Value(rule, w) ==
    CASE rule = "relation" ->
            LET R == TopLevel(w, RelOps)
            IN IF R = {} THEN Value("term", w)
               ELSE LET l == Value("term", Before(w, Last(R)))
                        r == Value("term", After(w, Last(R)))
                        op == w[Last(R)]
                    IN IF \/ op = <<"<">> /\ l < r
                          \/ op = <<">">> /\ l > r
                          \/ op = <<"=">> /\ l = r
                       THEN 1 ELSE 0
      [] rule = "term" ->
            LET A == TopLevel(w, AddOps)
            IN IF A = {} THEN Value("factor", w)
               ELSE IF w[Last(A)] = <<"+">>
               THEN Value("term", Before(w, Last(A))) + Value("factor", After(w, Last(A)))
               ELSE Value("term", Before(w, Last(A))) - Value("factor", After(w, Last(A)))
      [] rule = "factor" ->
            LET M == TopLevel(w, MulOps)
            IN IF M = {} THEN Value("primary", w)
               ELSE Value("factor", Before(w, Last(M))) * Value("primary", After(w, Last(M)))
      [] rule = "primary" ->
            IF Len(w) = 1 THEN int(w[1])
            ELSE Value("relation", SubSeq(w, 2, Len(w) - 1))

\* The text is a sentence of the grammar.
WellFormed(src) == LexesFrom(src, 0) /\ Derives("relation", TokensFrom(src, 0))

\* The tokens a tree was built from, in textual order.
RECURSIVE Yield(_)
Yield(node) ==
    CASE node.kind = "Integer" -> <<node.number>>
      [] node.kind = "Parenthesized" -> <<<<"(">>>> \o Yield(node.expression) \o <<<<")">>>>
      [] node.kind = "Less" -> Yield(node.left) \o <<<<"<">>>> \o Yield(node.right)
      [] node.kind = "Greater" -> Yield(node.left) \o <<<<">">>>> \o Yield(node.right)
      [] node.kind = "Equal" -> Yield(node.left) \o <<<<"=">>>> \o Yield(node.right)
      [] node.kind = "AddTerm" -> Yield(node.left) \o <<<<"+">>>> \o Yield(node.right)
      [] node.kind = "SubTerm" -> Yield(node.left) \o <<<<"-">>>> \o Yield(node.right)
      [] node.kind = "Factor" -> Yield(node.left) \o <<<<"*">>>> \o Yield(node.right)
      [] node.kind \in {"SingleRelation", "SingleTerm", "SingleFactor"} -> Yield(node.left)
      [] OTHER -> <<>>

\* The run of parse() has ended, with a tree or with an exception.
Finished == status \notin {"running", "lexing"}

\* A method of the parser is about to call Lexer.next_token.
FetchesToken ==
    \/ At("parse_primary", "start")
    \/ At("parse_factor", "left")
    \/ At("parse_factor", "right")

\* The positions at or after the cursor that hold no space.
NonSpaceAhead == {j \in (index + 1)..Len(source) : source[j] # " "}

First(S) == CHOOSE x \in S : \A y \in S : x <= y

-----------------------------------------------------------------------------
(* C1 *)

\* C1: whenever parse_primary asks for a token and the Lexer has none left
\* (only spaces, or nothing, lies ahead of the cursor), the run ends in a
\* SyntaxError and no other exception, and no tree is returned.
C1_EndOfInputIsSyntaxError ==
    [][(At("parse_primary", "start") /\ NonSpaceAhead = {})
        => (status' = "SyntaxError" /\ result' = NoneNode)]_vars

-----------------------------------------------------------------------------
(* C2 *)

OnePlusTwoTimesThree == <<"1", "+", "2", "*", "3">>

\* A tree without the pass-through nodes around its root.
RECURSIVE StripPassThrough(_)
StripPassThrough(node) ==
    IF node.kind \in {"SingleRelation", "SingleTerm", "SingleFactor"}
    THEN StripPassThrough(node.left)
    ELSE node

\* C2 as stated: under pass-through nodes only, the tree of "1+2*3" renders
\* as AddTerm(SingleFactor(Integer(1)),Factor(SingleFactor(Integer(2)),Integer(3))),
\* the Factor's left child being SingleFactor(Integer(2)).
C2_GoldenRenderAsStated ==
    (status = "done" /\ source = OnePlusTwoTimesThree)
        => /\ Str(StripPassThrough(result))
                = "AddTerm(SingleFactor(Integer(1)),Factor(SingleFactor(Integer(2)),Integer(3)))"
           /\ StripPassThrough(result).right.left = SingleFactor(Integer(<<"2">>))

\* C2 amended: the tree of "1+2*3" renders as
\* SingleRelation(AddTerm(SingleFactor(Integer(1)),Factor(Integer(2),Integer(3)))):
\* the AddTerm's right child is a Factor whose left child is Integer(2)
\* itself, not wrapped in a SingleFactor, and whose right child is Integer(3).
C2_GoldenRender ==
    (status = "done" /\ source = OnePlusTwoTimesThree)
        => /\ Str(result)
                = "SingleRelation(AddTerm(SingleFactor(Integer(1)),Factor(Integer(2),Integer(3))))"
           /\ result.left.kind = "AddTerm"
           /\ result.left.right.kind = "Factor"
           /\ result.left.right.left = Integer(<<"2">>)
           /\ result.left.right.right = Integer(<<"3">>)

\* C2 witness: parse() has returned the tree of "1+2*3", a Factor on the right of its AddTerm.
C2_Witness ==
    /\ status = "done"
    /\ source = OnePlusTwoTimesThree
    /\ result.left.right.kind = "Factor"

-----------------------------------------------------------------------------
(* C3 *)

\* C3: for every text that is a sentence of the grammar, parse() returns a
\* tree, and calculate() on it is the value the grammar gives the text: '*'
\* binds tighter than '+' and '-', parentheses override, a Number is its
\* decimal value, a comparison is 1 when it holds and 0 otherwise.
C3_WellFormedValue ==
    (Finished /\ WellFormed(source))
        => /\ status = "done"
           /\ calculate(result) = Value("relation", TokensFrom(source, 0))

\* C3 witness: parse() has returned for the sentence "(2+3)*4", and the tree calculates to 20.
C3_Witness ==
    /\ status = "done"
    /\ source = <<"(", "2", "+", "3", ")", "*", "4">>
    /\ WellFormed(source)
    /\ calculate(result) = 20

-----------------------------------------------------------------------------
(* C4 *)

\* The tokens the method that has just returned consumed: those fetched
\* since it was called, without the one left in the current-token slot.
Consumed == SubSeq(fetched, ret.entry + 1, Len(fetched) - 1)

\* node is the left fold of w = f1 op1 f2 ... opk f(k+1), k >= 0: a lone
\* factor's tree for k = 0, else opk's node over the fold of what precedes
\* opk and the tree of the factor that follows it.
RECURSIVE LeftFold(_, _)
LeftFold(node, w) ==
    LET A == TopLevel(w, AddOps)
    IN IF A = {}
       THEN isinstance(node, FactorKinds) /\ Yield(node) = w
       ELSE /\ node.kind = (IF w[Last(A)] = <<"+">> THEN "AddTerm" ELSE "SubTerm")
            /\ isinstance(node.right, FactorKinds)
            /\ Yield(node.right) = After(w, Last(A))
            /\ LeftFold(node.left, Before(w, Last(A)))

\* C4: the tree parse_term returns for f1 op1 f2 ... opk f(k+1) is the left
\* fold opk(...op1(f1,f2)...,f(k+1)), each '+' an AddTerm and each '-' a
\* SubTerm over the factor that follows it (a lone factor comes back in a
\* SingleTerm); so "10-3-2" calculates to 5.
C4_TermLeftFold ==
    /\ ret.fn = "parse_term"
        => IF TopLevel(Consumed, AddOps) = {}
           THEN ret.node.kind = "SingleTerm" /\ LeftFold(ret.node.left, Consumed)
           ELSE LeftFold(ret.node, Consumed)
    /\ (status = "done" /\ source = <<"1", "0", "-", "3", "-", "2">>)
        => calculate(result) = 5

\* C4 witness: parse_term has returned for "9-4+3-1", three operators folded, the last one outermost.
C4_Witness ==
    /\ ret.fn = "parse_term"
    /\ source = <<"9", "-", "4", "+", "3", "-", "1">>
    /\ Cardinality(TopLevel(Consumed, AddOps)) = 3
    /\ ret.node.kind = "SubTerm"
    /\ ret.node.left.kind = "AddTerm"
    /\ ret.node.left.left.kind = "SubTerm"
    /\ calculate(ret.node) = 7

-----------------------------------------------------------------------------
(* C5 *)

\* Token t can carry on the relation w: a '*', '+' or '-' always can, a
\* comparison operator can while w holds none outside parentheses.
Extends(w, t) ==
    \/ t \in MulOps \cup AddOps
    \/ t \in RelOps /\ TopLevel(w, RelOps) = {}

\* The lengths of the complete relations at the head of the text's tokens
\* that are followed by a token which cannot carry them on.
CompletePrefixes(src) ==
    LET w == TokensFrom(src, 0)
    IN {k \in 1..(Len(w) - 1) :
            Derives("relation", SubSeq(w, 1, k)) /\ ~Extends(SubSeq(w, 1, k), w[k + 1])}

OneLessTwoLessThree == <<"1", "<", "2", "<", "3">>

\* C5: when a complete relation is followed by further tokens that cannot
\* carry it on, parse() returns the tree of that relation and raises
\* nothing.  For "1<2<3" it returns the Less node over 1 and 2; the second
\* '<' stays in the current-token slot and the 3 is never read.
C5_TrailingInputIgnored ==
    /\ (Finished /\ CompletePrefixes(source) # {})
        => /\ status = "done"
           /\ err = ""
           /\ \E k \in CompletePrefixes(source) :
                Yield(result) = SubSeq(TokensFrom(source, 0), 1, k)
    /\ (Finished /\ source = OneLessTwoLessThree)
        => /\ status = "done"
           /\ Str(result)
                = "Less(SingleTerm(SingleFactor(Integer(1))),SingleTerm(SingleFactor(Integer(2))))"
           /\ token = <<"<">>
           /\ index = Len(source) - 1

\* C5 witness: parse() has returned a Less for "1<2<3" with the cursor short of the end of the text.
C5_Witness ==
    /\ status = "done"
    /\ source = OneLessTwoLessThree
    /\ result.kind = "Less"
    /\ index < Len(source)

-----------------------------------------------------------------------------
(* C6 *)

\* C6: when a method of the parser calls next_token and the first character
\* at or after the cursor that is no space is neither a digit nor an allowed
\* symbol, the call raises LexicalError naming that character, no token is
\* returned, and the error ends the run of parse() without a tree.
C6_LexicalError ==
    [][(FetchesToken
        /\ NonSpaceAhead # {}
        /\ source[First(NonSpaceAhead)] \notin Digits \cup ALLOWED_SYMBOLS)
        => /\ status' = "LexicalError"
           /\ err' = "Invalid symbol: " \o source[First(NonSpaceAhead)]
           /\ fetched' = fetched
           /\ token' = token
           /\ stack' = <<>>
           /\ result' = NoneNode]_vars

\* C6 witness: the run on "1&2" has ended in LexicalError naming '&', without a tree.
C6_Witness ==
    /\ status = "LexicalError"
    /\ source = <<"1", "&", "2">>
    /\ err = "Invalid symbol: &"
    /\ result = NoneNode

-----------------------------------------------------------------------------
(* C7 *)

\* C7: once the cursor is at the end of the source, or only spaces are left
\* ahead of it, every call of next_token returns None, raises nothing and
\* leaves the cursor at the end of the source.
C7_EndOfInputIdempotent ==
    [][(status = "lexing" /\ NonSpaceAhead = {})
        => /\ fetched' = Append(fetched, None)
           /\ index' = Len(source)
           /\ (index = Len(source) => index' = index)
           /\ status' = "lexing"
           /\ err' = ""]_vars

\* C7 witness: after a token and trailing spaces, three calls in a row have returned None at the end.
C7_Witness ==
    /\ status = "lexing"
    /\ source # <<>>
    /\ source[Len(source)] = " "
    /\ index = Len(source)
    /\ Len(fetched) >= 4
    /\ fetched[Len(fetched)] = None
    /\ fetched[Len(fetched) - 1] = None
    /\ fetched[Len(fetched) - 2] = None
    /\ fetched[1] # None

-----------------------------------------------------------------------------
(* C8 *)

\* C8: in parse_primary, after '(' and the nested relation, a current token
\* other than ')' ends the run in a SyntaxError without a Parenthesized
\* node; the message names the token found, or "end of input" when the
\* current token is the end marker.
C8_MissingCloseReported ==
    [][(At("parse_primary", "close") /\ token # <<")">>)
        => /\ status' = "SyntaxError"
           /\ result' = NoneNode
           /\ err' = "Expected ')', got '"
                        \o (IF token = None THEN "end of input" ELSE Text(token))
                        \o "'"]_vars

-----------------------------------------------------------------------------
(* C9 *)

GrammarRules == {"parse_primary", "parse_factor", "parse_term", "parse_relation"}

\* The tokens fetched so far are the head of the Lexer's token stream, each
\* once and in order, with None for every fetch past the last token.
InStreamOrder ==
    LET w == TokensFrom(source, 0)
    IN \A i \in 1..Len(fetched) :
            fetched[i] = (IF i <= Len(w) THEN w[i] ELSE None)

\* The slot holds the token after the construct just parsed: the tree was
\* built from the tokens fetched since the call, the last one excepted, and
\* that last one is in the slot.
LookaheadCarried ==
    /\ Len(fetched) > ret.entry
    /\ Yield(ret.node) = Consumed
    /\ token = fetched[Len(fetched)]
    /\ InStreamOrder

\* The slot still holds the last token of the construct just parsed: the
\* tree was built from all the tokens fetched since the call.
LastTokenHeld ==
    /\ Len(fetched) > ret.entry
    /\ Yield(ret.node) = SubSeq(fetched, ret.entry + 1, Len(fetched))
    /\ token = fetched[Len(fetched)]
    /\ InStreamOrder

\* C9 as stated: whenever parse_primary, parse_factor, parse_term or
\* parse_relation returns, the current-token slot holds the token that
\* follows the last token of the construct it parsed (None if none follows),
\* no token having been skipped or fetched twice.
C9_LookaheadAsStated == ret.fn \in GrammarRules => LookaheadCarried

\* C9 amended: whenever parse_factor, parse_term or parse_relation returns,
\* the current-token slot holds the token that follows the last token of the
\* construct it parsed (None if none follows); when parse_primary returns,
\* the slot still holds the last token of the primary itself (the number, or
\* the ')'), the following token being fetched by parse_factor afterwards;
\* no token is skipped or fetched twice.
C9_Lookahead ==
    /\ ret.fn \in GrammarRules \ {"parse_primary"} => LookaheadCarried
    /\ ret.fn = "parse_primary" => LastTokenHeld

\* C9 witness: parse_term has returned for the 7-2*3 of "7-2*3=1" with '=' in the slot.
C9_Witness ==
    /\ ret.fn = "parse_term"
    /\ source = <<"7", "-", "2", "*", "3", "=", "1">>
    /\ Consumed = <<<<"7">>, <<"-">>, <<"2">>, <<"*">>, <<"3">>>>
    /\ token = <<"=">>

-----------------------------------------------------------------------------
(* C10 *)

\* The families of a node's children, all the way down.
RECURSIVE FamilyInvariant(_)
FamilyInvariant(node) ==
    CASE node.kind = "Integer" -> isdigit(node.number)
      [] node.kind = "Parenthesized" ->
            /\ isinstance(node.expression, RelationKinds)
            /\ FamilyInvariant(node.expression)
      [] node.kind \in {"Less", "Greater", "Equal"} ->
            /\ isinstance(node.left, TermKinds)
            /\ isinstance(node.right, TermKinds)
            /\ FamilyInvariant(node.left)
            /\ FamilyInvariant(node.right)
      [] node.kind = "SingleRelation" ->
            /\ isinstance(node.left, TermKinds)
            /\ node.right = NoneNode
            /\ FamilyInvariant(node.left)
      [] node.kind \in TermKinds ->
            /\ isinstance(node.left, TermKinds \cup FactorKinds)
            /\ node.right = NoneNode \/ isinstance(node.right, FactorKinds)
            /\ FamilyInvariant(node.left)
            /\ node.right = NoneNode \/ FamilyInvariant(node.right)
      [] node.kind \in FactorKinds ->
            /\ isinstance(node.left, FactorKinds \cup PrimaryKinds)
            /\ node.right = NoneNode \/ isinstance(node.right, PrimaryKinds)
            /\ FamilyInvariant(node.left)
            /\ node.right = NoneNode \/ FamilyInvariant(node.right)
      [] OTHER -> FALSE

\* Every node the parser holds: returned, or a local of an active call.
NodesHeld ==
    ({ret.node, result}
        \cup {stack[i].left : i \in 1..Len(stack)}
        \cup {stack[i].right : i \in 1..Len(stack)}) \ {NoneNode}

\* C10: no constructor assertion ever fails, and every node the parser has
\* built keeps its family invariant: a Relation's left is a Term and its
\* right a Term, absent only in a SingleRelation; a Term's left is a Term or
\* a Factor and its right, when present, a Factor; a Factor's left is a
\* Factor or a Primary and its right, when present, a Primary; an Integer
\* wraps a non-empty digit string; a Parenthesized wraps a Relation.
C10_FamilyInvariants ==
    /\ status # "AssertionError"
    /\ \A node \in NodesHeld : FamilyInvariant(node)

\* C10 witness: parse() has returned a tree with a Factor over an Integer and a parenthesized Greater.
C10_Witness ==
    /\ status = "done"
    /\ result.kind = "SingleRelation"
    /\ result.left.kind = "SingleTerm"
    /\ result.left.left.kind = "Factor"
    /\ result.left.left.left.kind = "Integer"
    /\ result.left.left.right.kind = "Parenthesized"
    /\ result.left.left.right.expression.kind = "Greater"

====
